---- MODULE Spec2Model ----
(***************************************************************************)
(* The view-placement subsystem of Logos: FloatingPanel and                *)
(* FloatingPanelService (floatingPanelService.ts) and the four placement   *)
(* commands (floatingPanel.contribution.ts).                               *)
(*                                                                         *)
(* The program runs on one cooperative event loop: every handler runs to   *)
(* completion, and openFloatingPanel suspends once, at the await of the    *)
(* window provider.  A handler is an operator from a state record to a     *)
(* state record, composed in the order of the source's statements; an      *)
(* action commits the record a whole handler produces.                     *)
(***************************************************************************)
EXTENDS Integers, Sequences, FiniteSets, TLC

VARIABLES
    idCounter,              \* FloatingPanel._idCounter
    panels,                 \* every FloatingPanel object constructed so far
    windows,                \* every auxiliary window opened so far
    floatingPanels,         \* FloatingPanelService.floatingPanels: id -> panel
    floatingPanelsByViewId, \* FloatingPanelService.floatingPanelsByViewId
    events,                 \* per panel, the deliveries of the two service events
    calls,                  \* the openFloatingPanel calls, by caller slot
    serviceDisposed,        \* FloatingPanelService was disposed
    lastOp                  \* what the last handler was given and did

vars == <<idCounter, panels, windows, floatingPanels, floatingPanelsByViewId,
          events, calls, serviceDisposed, lastOp>>

---------------------------------------------------------------------------
\* Bounds of the model.
MaxPanels == 2
MaxCalls == 2

\* Program constants.
DefaultWidth == 400
DefaultHeight == 300
FloatWidth == 500
FloatHeight == 400

\* The views of the model: one relocatable, one not relocatable, one the
\* view registry has no descriptor for.
ViewIds == {"explorer", "search", "ghost"}
NoView == ""
Locations == {"Sidebar", "Panel", "AuxiliaryBar"}
NoPanel == 0
NoId == <<>>
Undefined == {}

Callers == 1..MaxCalls
PanelRefs == 1..Len(panels)
WindowRefs == 1..Len(windows)

\* A bounds option of a caller: absent, or one size.
BoundsInputs == {Undefined, {[width |-> 640, height |-> 480]}}

---------------------------------------------------------------------------
\* Map<K, V> of the runtime.
EmptyMap == [k \in {} |-> NoPanel]
MapHas(m, k) == k \in DOMAIN m
MapGet(m, k) == IF k \in DOMAIN m THEN m[k] ELSE NoPanel
MapSet(m, k, v) == [x \in (DOMAIN m) \cup {k} |-> IF x = k THEN v ELSE m[x]]
MapDelete(m, k) == [x \in (DOMAIN m) \ {k} |-> m[x]]
MapValues(m) == {m[k] : k \in DOMAIN m}

\* a ?? b on an optional value
Nullish(a, b) == IF a = Undefined THEN b ELSE a

---------------------------------------------------------------------------
\* The state record the handlers transform.
Cur ==
    [idCounter |-> idCounter, panels |-> panels, windows |-> windows,
     floatingPanels |-> floatingPanels,
     floatingPanelsByViewId |-> floatingPanelsByViewId,
     events |-> events, calls |-> calls, serviceDisposed |-> serviceDisposed,
     lastOp |-> lastOp]

Commit(s) ==
    /\ idCounter' = s.idCounter
    /\ panels' = s.panels
    /\ windows' = s.windows
    /\ floatingPanels' = s.floatingPanels
    /\ floatingPanelsByViewId' = s.floatingPanelsByViewId
    /\ events' = s.events
    /\ calls' = s.calls
    /\ serviceDisposed' = s.serviceDisposed
    /\ lastOp' = s.lastOp

NoOp ==
    [op |-> "none", viewId |-> NoView, focusedView |-> NoView, panelId |-> NoId,
     panel |-> NoPanel, window |-> 0, location |-> "none", ret |-> NoPanel,
     opened |-> <<>>, consulted |-> <<>>, relocate |-> <<>>, focused |-> <<>>,
     threw |-> FALSE]

Begin(s, op) == [s EXCEPT !.lastOp = [NoOp EXCEPT !.op = op]]

---------------------------------------------------------------------------
\* The view registry (IViewDescriptorService), an external collaborator.
getViewDescriptorById(viewId) ==
    CASE viewId = "explorer" -> {[id |-> "explorer", name |-> "Explorer", canMoveView |-> TRUE]}
      [] viewId = "search" -> {[id |-> "search", name |-> "Search", canMoveView |-> FALSE]}
      [] OTHER -> Undefined

Descriptor(d) == CHOOSE x \in d : TRUE

\* A handler's call of getViewDescriptorById(viewId), recorded.
consult(s, viewId) == [s EXCEPT !.lastOp.consulted = Append(@, viewId)]

\* moveViewToLocation(descriptor, location, reason): the call is recorded
\* with what isViewFloating answers while it runs; it may raise.
moveViewToLocation(s, descriptor, location, reason, raises) ==
    [s EXCEPT !.lastOp.relocate =
                  Append(@, [descriptor |-> descriptor, location |-> location,
                             reason |-> reason,
                             floating |-> MapHas(s.floatingPanelsByViewId, descriptor.id)]),
              !.lastOp.threw = raises]

---------------------------------------------------------------------------
\* Emitter.fire of the two service events: the delivery is recorded with
\* what a listener sees in the two maps at that instant.
Fire(s, type, p) ==
    LET delivery == [type |-> type,
                     inById |-> MapGet(s.floatingPanels, s.panels[p].id) = p,
                     inByViewId |-> p \in MapValues(s.floatingPanelsByViewId)]
        last == IF p > Len(s.events) THEN p ELSE Len(s.events)
        before(q) == IF q <= Len(s.events) THEN s.events[q] ELSE <<>>
    IN  [s EXCEPT !.events = [q \in 1..last |->
                                 IF q = p THEN Append(before(q), delivery)
                                 ELSE before(q)]]

---------------------------------------------------------------------------
\* The window provider (IAuxiliaryWindowService / IAuxiliaryWindow), an
\* external collaborator.  A window is "live", "closing" (destroyed, its
\* unload notification still to come) or "closed" (unload was delivered).
\* It fires unload exactly once, to the listeners subscribed at that moment.

\* class FloatingPanel ----------------------------------------------------

\* `floating-panel-${n}`
PanelId(n) == <<"floating-panel-", n>>

\* constructor that numbers the panel by the size of the id map (a mutant)
FloatingPanel_new_IdFromMapSize(s, viewId, w) ==
    [s EXCEPT !.panels = Append(@, [id |-> PanelId(Cardinality(DOMAIN s.floatingPanels)),
                                    viewId |-> viewId, window |-> w,
                                    listening |-> TRUE]),
              !.idCounter = @ + 1]

\* constructor: the id from the shared counter, then the subscription to
\* window.onUnload, registered on the panel's own disposable store.
FloatingPanel_new(s, viewId, w) ==
    [s EXCEPT !.panels = Append(@, [id |-> PanelId(s.idCounter), viewId |-> viewId,
                                    window |-> w, listening |-> TRUE]),
              !.idCounter = @ + 1]

\* bringToFront that fails once the window is gone (a mutant)
bringToFront_FailsWhenClosed(s, p) ==
    IF s.windows[s.panels[p].window] = "live"
    THEN [s EXCEPT !.lastOp.focused = Append(@, s.panels[p].window)]
    ELSE [s EXCEPT !.lastOp.threw = TRUE]

\* bringToFront(): this.window.window.focus()
bringToFront(s, p) ==
    [s EXCEPT !.lastOp.focused = Append(@, s.panels[p].window)]

\* handlePanelClosed that fires the close event before it deletes (a mutant)
handlePanelClosed_FiresFirst(s, p) ==
    LET panel == s.panels[p]
        s0 == Fire(s, "close", p)
        s1 == [s0 EXCEPT !.floatingPanels = MapDelete(@, panel.id)]
    IN  [s1 EXCEPT !.floatingPanelsByViewId = MapDelete(@, panel.viewId)]

\* handlePanelClosed that deletes from the view index by the panel's id
\* (a mutant)
handlePanelClosed_DeletesViewIndexById(s, p) ==
    LET panel == s.panels[p]
        s1 == [s EXCEPT !.floatingPanels = MapDelete(@, panel.id)]
        s2 == [s1 EXCEPT !.floatingPanelsByViewId = MapDelete(@, panel.id)]
    IN  Fire(s2, "close", p)

\* handlePanelClosed with the view index left as it was (a mutant)
handlePanelClosed_KeepsViewIndex(s, p) ==
    Fire([s EXCEPT !.floatingPanels = MapDelete(@, s.panels[p].id)], "close", p)

\* handlePanelClosed without the close event (a mutant)
handlePanelClosed_NoEvent(s, p) ==
    [s EXCEPT !.floatingPanels = MapDelete(@, s.panels[p].id),
              !.floatingPanelsByViewId = MapDelete(@, s.panels[p].viewId)]

\* handlePanelClosed(panel) of the service, the panels' onCloseCallback
handlePanelClosed(s, p) ==
    LET panel == s.panels[p]
        s1 == [s EXCEPT !.floatingPanels = MapDelete(@, panel.id)]
        s2 == [s1 EXCEPT !.floatingPanelsByViewId = MapDelete(@, panel.viewId)]
    IN  Fire(s2, "close", p)

\* The window's unload emitter fires: every panel still subscribed to this
\* window runs its onCloseCallback (one panel is constructed per window).
onUnload(s, w) ==
    LET subscribed == {p \in 1..Len(s.panels) :
                          s.panels[p].window = w /\ s.panels[p].listening}
    IN  IF subscribed = {} THEN s
        ELSE handlePanelClosed(s, CHOOSE p \in subscribed : TRUE)

\* window.dispose(): destroys a live window.  The provider delivers unload
\* either inside the call (sync) or in a later turn of the event loop.
window_dispose(s, w, sync) ==
    IF s.windows[w] # "live" THEN s
    ELSE IF sync THEN onUnload([s EXCEPT !.windows[w] = "closed"], w)
    ELSE [s EXCEPT !.windows[w] = "closing"]

\* dispose() that leaves the unload subscription in place (a mutant)
dispose_KeepsSubscription(s, p, sync) == window_dispose(s, s.panels[p].window, sync)

\* dispose(): this.window.dispose(); super.dispose() (which revokes the
\* unload subscription)
dispose(s, p, sync) ==
    LET s1 == window_dispose(s, s.panels[p].window, sync)
    IN  [s1 EXCEPT !.panels[p].listening = FALSE]

\* close(): this.dispose()
close(s, p, sync) == dispose(s, p, sync)

\* class FloatingPanelService ---------------------------------------------

getFloatingPanel(s, panelId) == MapGet(s.floatingPanels, panelId)
getFloatingPanelByViewId(s, viewId) == MapGet(s.floatingPanelsByViewId, viewId)
getAllFloatingPanels(s) == MapValues(s.floatingPanels)
isViewFloating(s, viewId) == MapHas(s.floatingPanelsByViewId, viewId)

\* openFloatingPanel whose existence check also finds panels of the view
\* that were closed (a mutant)
openFloatingPanel_FindsClosed(s, c, options) ==
    LET viewId == options.viewId
        ofView == {q \in 1..Len(s.panels) : s.panels[q].viewId = viewId}
        existing == IF MapHas(s.floatingPanelsByViewId, viewId)
                    THEN s.floatingPanelsByViewId[viewId]
                    ELSE IF ofView # {} THEN CHOOSE q \in ofView : TRUE
                    ELSE NoPanel
    IN  IF existing # NoPanel
        THEN [bringToFront(s, existing) EXCEPT !.lastOp.ret = existing]
        ELSE [s EXCEPT
                !.lastOp.opened =
                    Append(@, [bounds |-> Nullish(options.bounds,
                                  {[width |-> DefaultWidth, height |-> DefaultHeight]})]),
                !.calls[c] = [pc |-> "awaiting", viewId |-> viewId]]

\* openFloatingPanel that always asks for the default bounds (a mutant)
openFloatingPanel_IgnoresBounds(s, c, options) ==
    LET existing == MapGet(s.floatingPanelsByViewId, options.viewId)
    IN  IF existing # NoPanel
        THEN [bringToFront(s, existing) EXCEPT !.lastOp.ret = existing]
        ELSE [s EXCEPT
                !.lastOp.opened =
                    Append(@, [bounds |-> {[width |-> DefaultWidth, height |-> DefaultHeight]}]),
                !.calls[c] = [pc |-> "awaiting", viewId |-> options.viewId]]

\* openFloatingPanel that announces the existing panel again (a mutant)
openFloatingPanel_FiresOnExisting(s, c, options) ==
    LET existing == MapGet(s.floatingPanelsByViewId, options.viewId)
    IN  IF existing # NoPanel
        THEN [Fire(bringToFront(s, existing), "open", existing) EXCEPT
                 !.lastOp.ret = existing]
        ELSE [s EXCEPT
                !.lastOp.opened =
                    Append(@, [bounds |-> Nullish(options.bounds,
                                  {[width |-> DefaultWidth, height |-> DefaultHeight]})]),
                !.calls[c] = [pc |-> "awaiting", viewId |-> options.viewId]]

\* openFloatingPanel without the check for an existing panel (a mutant)
openFloatingPanel_NoExistingCheck(s, c, options) ==
    [s EXCEPT
        !.lastOp.opened =
            Append(@, [bounds |-> Nullish(options.bounds,
                          {[width |-> DefaultWidth, height |-> DefaultHeight]})]),
        !.calls[c] = [pc |-> "awaiting", viewId |-> options.viewId]]

\* openFloatingPanel(options), up to the await of auxiliaryWindowService.open
openFloatingPanel(s, c, options) ==
    LET viewId == options.viewId
        windowOptions == [bounds |-> options.bounds]
        existing == MapGet(s.floatingPanelsByViewId, viewId)
    IN  IF existing # NoPanel
        THEN [bringToFront(s, existing) EXCEPT !.lastOp.ret = existing]
        ELSE [s EXCEPT
                !.lastOp.opened =
                    Append(@, [windowOptions EXCEPT
                                  !.bounds = Nullish(windowOptions.bounds,
                                      {[width |-> DefaultWidth, height |-> DefaultHeight]})]),
                !.calls[c] = [pc |-> "awaiting", viewId |-> viewId]]

\* openFloatingPanel that registers the new panel without announcing it
\* (a mutant)
openFloatingPanelResumed_NoOpenEvent(s, c, w) ==
    LET viewId == s.calls[c].viewId
        p == Len(s.panels) + 1
        s1 == FloatingPanel_new(s, viewId, w)
        s2 == [s1 EXCEPT !.floatingPanels = MapSet(@, s1.panels[p].id, p)]
        s3 == [s2 EXCEPT !.floatingPanelsByViewId = MapSet(@, viewId, p)]
    IN  [s3 EXCEPT !.lastOp.ret = p, !.calls[c] = [pc |-> "idle", viewId |-> NoView]]

\* openFloatingPanel that registers the new panel by view id only (a mutant)
openFloatingPanelResumed_SkipsIdMap(s, c, w) ==
    LET viewId == s.calls[c].viewId
        p == Len(s.panels) + 1
        s1 == FloatingPanel_new(s, viewId, w)
        s3 == [s1 EXCEPT !.floatingPanelsByViewId = MapSet(@, viewId, p)]
        s4 == Fire(s3, "open", p)
    IN  [s4 EXCEPT !.lastOp.ret = p, !.calls[c] = [pc |-> "idle", viewId |-> NoView]]

\* openFloatingPanel(options), from the await on, given the window w
openFloatingPanelResumed(s, c, w) ==
    LET viewId == s.calls[c].viewId
        p == Len(s.panels) + 1
        s1 == FloatingPanel_new(s, viewId, w)
        s2 == [s1 EXCEPT !.floatingPanels = MapSet(@, s1.panels[p].id, p)]
        s3 == [s2 EXCEPT !.floatingPanelsByViewId = MapSet(@, viewId, p)]
        s4 == Fire(s3, "open", p)
    IN  [s4 EXCEPT !.lastOp.ret = p, !.calls[c] = [pc |-> "idle", viewId |-> NoView]]

\* openFloatingPanel that takes an id before the window exists, so that a
\* failed open request has consumed one (a mutant)
openFloatingPanelRejected_ConsumesId(s, c) ==
    [s EXCEPT !.lastOp.threw = TRUE, !.idCounter = @ + 1,
              !.calls[c] = [pc |-> "idle", viewId |-> NoView]]

\* openFloatingPanel that catches the failure of the open request and keeps
\* waiting (a mutant)
openFloatingPanelRejected_KeepsWaiting(s, c) == [s EXCEPT !.lastOp.threw = TRUE]

\* openFloatingPanel that swallows the failure of the open request (a mutant)
openFloatingPanelRejected_Swallows(s, c) ==
    [s EXCEPT !.calls[c] = [pc |-> "idle", viewId |-> NoView]]

\* openFloatingPanel(options) when the awaited open request fails: the
\* rejection leaves the async function
openFloatingPanelRejected(s, c) ==
    [s EXCEPT !.lastOp.threw = TRUE, !.calls[c] = [pc |-> "idle", viewId |-> NoView]]

\* closeFloatingPanel that finds the panel among all panels ever
\* constructed, registered or not (a mutant)
closeFloatingPanel_StaleLookup(s, panelId, sync) ==
    LET known == {p \in 1..Len(s.panels) : s.panels[p].id = panelId}
    IN  IF known # {} THEN close(s, CHOOSE p \in known : TRUE, sync) ELSE s

\* closeFloatingPanel(panelId)
closeFloatingPanel(s, panelId, sync) ==
    LET panel == MapGet(s.floatingPanels, panelId)
    IN  IF panel # NoPanel THEN close(s, panel, sync) ELSE s

\* dockFloatingPanel that closes the panel even when relocate raised, as a
\* finally block would (a mutant)
dockFloatingPanel_ClosesAnyway(s, panelId, location, sync, raises) ==
    LET panel == MapGet(s.floatingPanels, panelId)
    IN  IF panel = NoPanel THEN s
        ELSE
        LET viewDescriptor == getViewDescriptorById(s.panels[panel].viewId)
            s0 == consult(s, s.panels[panel].viewId)
            s1 == IF viewDescriptor # Undefined /\ Descriptor(viewDescriptor).canMoveView
                  THEN moveViewToLocation(s0, Descriptor(viewDescriptor), location,
                                          "dock", raises)
                  ELSE s0
        IN  close(s1, panel, sync)

\* dockFloatingPanel that relocates whenever a descriptor exists (a mutant)
dockFloatingPanel_IgnoresCanMove(s, panelId, location, sync, raises) ==
    LET panel == MapGet(s.floatingPanels, panelId)
    IN  IF panel = NoPanel THEN s
        ELSE
        LET viewDescriptor == getViewDescriptorById(s.panels[panel].viewId)
            s0 == consult(s, s.panels[panel].viewId)
            s1 == IF viewDescriptor # Undefined
                  THEN moveViewToLocation(s0, Descriptor(viewDescriptor), location,
                                          "dock", raises)
                  ELSE s0
        IN  IF s1.lastOp.threw THEN s1 ELSE close(s1, panel, sync)

\* dockFloatingPanel(panelId, location)
dockFloatingPanel(s, panelId, location, sync, raises) ==
    LET panel == MapGet(s.floatingPanels, panelId)
    IN  IF panel = NoPanel THEN s
        ELSE
        LET viewDescriptor == getViewDescriptorById(s.panels[panel].viewId)
            s0 == consult(s, s.panels[panel].viewId)
            s1 == IF viewDescriptor # Undefined /\ Descriptor(viewDescriptor).canMoveView
                  THEN moveViewToLocation(s0, Descriptor(viewDescriptor), location,
                                          "dock", raises)
                  ELSE s0
        IN  IF s1.lastOp.threw THEN s1 ELSE close(s1, panel, sync)

\* dispose() of the service, inherited from Disposable: disposes the two
\* registered emitters and nothing else
FloatingPanelService_dispose(s) == [s EXCEPT !.serviceDisposed = TRUE]

\* The placement commands ---------------------------------------------------

\* FloatViewAction.run that floats a view the registry does not know (a mutant)
FloatViewAction_run_NoDescriptorCheck(s, c, viewId, focusedView) ==
    IF viewId = NoView THEN s
    ELSE
    LET viewDescriptor == getViewDescriptorById(viewId)
        s0 == consult(s, viewId)
    IN  IF isViewFloating(s0, viewId)
        THEN bringToFront(s0, getFloatingPanelByViewId(s0, viewId))
        ELSE openFloatingPanel(s0, c,
                 [viewId |-> viewId,
                  title |-> {d.name : d \in viewDescriptor},
                  bounds |-> {[width |-> FloatWidth, height |-> FloatHeight]}])

\* FloatViewAction.run(accessor, viewId?)
FloatViewAction_run(s, c, viewId, focusedView) ==
    IF viewId = NoView
    THEN (IF focusedView # NoView THEN s ELSE s)
    ELSE
    LET viewDescriptor == getViewDescriptorById(viewId)
        s0 == consult(s, viewId)
    IN  IF viewDescriptor = Undefined THEN s0
        ELSE IF isViewFloating(s0, viewId)
        THEN LET panel == getFloatingPanelByViewId(s0, viewId)
             IN  IF panel # NoPanel THEN bringToFront(s0, panel) ELSE s0
        ELSE openFloatingPanel(s0, c,
                 [viewId |-> viewId,
                  title |-> {Descriptor(viewDescriptor).name},
                  bounds |-> {[width |-> FloatWidth, height |-> FloatHeight]}])

\* DockViewToSidebarAction.run that relocates whenever a descriptor exists
\* (a mutant)
DockViewToSidebarAction_run_IgnoresCanMove(s, viewId, sync, raises) ==
    IF viewId = NoView THEN s
    ELSE
    LET floatingPanel == getFloatingPanelByViewId(s, viewId)
    IN  IF floatingPanel # NoPanel
        THEN dockFloatingPanel(s, s.panels[floatingPanel].id, "Sidebar", sync, raises)
        ELSE
        LET viewDescriptor == getViewDescriptorById(viewId)
            s0 == consult(s, viewId)
        IN  IF viewDescriptor # Undefined
            THEN moveViewToLocation(s0, Descriptor(viewDescriptor), "Sidebar", "dock", raises)
            ELSE s0

\* DockViewToSidebarAction.run(accessor, viewId?)
DockViewToSidebarAction_run(s, viewId, sync, raises) ==
    IF viewId = NoView THEN s
    ELSE
    LET floatingPanel == getFloatingPanelByViewId(s, viewId)
    IN  IF floatingPanel # NoPanel
        THEN dockFloatingPanel(s, s.panels[floatingPanel].id, "Sidebar", sync, raises)
        ELSE
        LET viewDescriptor == getViewDescriptorById(viewId)
            s0 == consult(s, viewId)
        IN  IF viewDescriptor # Undefined /\ Descriptor(viewDescriptor).canMoveView
            THEN moveViewToLocation(s0, Descriptor(viewDescriptor), "Sidebar", "dock", raises)
            ELSE s0

\* DockViewToPanelAction.run that docks to the sidebar (a mutant)
DockViewToPanelAction_run_ToSidebar(s, viewId, sync, raises) ==
    IF viewId = NoView THEN s
    ELSE
    LET floatingPanel == getFloatingPanelByViewId(s, viewId)
    IN  IF floatingPanel # NoPanel
        THEN dockFloatingPanel(s, s.panels[floatingPanel].id, "Sidebar", sync, raises)
        ELSE
        LET viewDescriptor == getViewDescriptorById(viewId)
            s0 == consult(s, viewId)
        IN  IF viewDescriptor # Undefined /\ Descriptor(viewDescriptor).canMoveView
            THEN moveViewToLocation(s0, Descriptor(viewDescriptor), "Panel", "dock", raises)
            ELSE s0

\* DockViewToPanelAction.run(accessor, viewId?)
DockViewToPanelAction_run(s, viewId, sync, raises) ==
    IF viewId = NoView THEN s
    ELSE
    LET floatingPanel == getFloatingPanelByViewId(s, viewId)
    IN  IF floatingPanel # NoPanel
        THEN dockFloatingPanel(s, s.panels[floatingPanel].id, "Panel", sync, raises)
        ELSE
        LET viewDescriptor == getViewDescriptorById(viewId)
            s0 == consult(s, viewId)
        IN  IF viewDescriptor # Undefined /\ Descriptor(viewDescriptor).canMoveView
            THEN moveViewToLocation(s0, Descriptor(viewDescriptor), "Panel", "dock", raises)
            ELSE s0

\* DockViewToAuxiliaryBarAction.run(accessor, viewId?)
DockViewToAuxiliaryBarAction_run(s, viewId, sync, raises) ==
    IF viewId = NoView THEN s
    ELSE
    LET floatingPanel == getFloatingPanelByViewId(s, viewId)
    IN  IF floatingPanel # NoPanel
        THEN dockFloatingPanel(s, s.panels[floatingPanel].id, "AuxiliaryBar", sync, raises)
        ELSE
        LET viewDescriptor == getViewDescriptorById(viewId)
            s0 == consult(s, viewId)
        IN  IF viewDescriptor # Undefined /\ Descriptor(viewDescriptor).canMoveView
            THEN moveViewToLocation(s0, Descriptor(viewDescriptor), "AuxiliaryBar", "dock", raises)
            ELSE s0

---------------------------------------------------------------------------
\* The state machine.

Init ==
    /\ idCounter = 0
    /\ panels = <<>>
    /\ windows = <<>>
    /\ floatingPanels = EmptyMap
    /\ floatingPanelsByViewId = EmptyMap
    /\ events = <<>>
    /\ calls = [c \in Callers |-> [pc |-> "idle", viewId |-> NoView]]
    /\ serviceDisposed = FALSE
    /\ lastOp = NoOp

Awaiting == {c \in Callers : calls[c].pc = "awaiting"}

\* A new call takes the first free caller slot.
FreeSlot(c) ==
    /\ calls[c].pc = "idle"
    /\ \A d \in Callers : d < c => calls[d].pc = "awaiting"

\* No more than MaxPanels windows are ever requested.
HasCapacity == idCounter + Cardinality(Awaiting) < MaxPanels

\* The ids a caller may pass: every id assigned so far and the next one.
PanelIds == {PanelId(n) : n \in 0..idCounter}

\* What the environment may do during a handler: deliver unload inside
\* window.dispose() or later (a choice only for a live window), and raise
\* from moveViewToLocation (a choice only when the handler calls it).
SyncModes(p) ==
    IF p # NoPanel /\ windows[panels[p].window] = "live" THEN BOOLEAN ELSE {TRUE}
RaiseModes(viewId) ==
    LET d == getViewDescriptorById(viewId)
    IN  IF d # Undefined /\ Descriptor(d).canMoveView THEN BOOLEAN ELSE {FALSE}
ViewOf(p) == IF p = NoPanel THEN NoView ELSE panels[p].viewId

\* The view that has focus when a command runs (a choice only when the
\* command is given no view id): one of the views, or none.
FocusInputs(viewId) == IF viewId = NoView THEN ViewIds \cup {NoView} ELSE {NoView}

\* A caller calls openFloatingPanel({viewId, bounds}).
OpenFloatingPanel(c, viewId, bounds) ==
    /\ ~serviceDisposed
    /\ FreeSlot(c)
    /\ isViewFloating(Cur, viewId) \/ HasCapacity
    /\ Commit(openFloatingPanel(
           [Begin(Cur, "openFloatingPanel") EXCEPT !.lastOp.viewId = viewId],
           c, [viewId |-> viewId, title |-> Undefined, bounds |-> bounds]))

\* The window provider answers the open request of call c with a new window.
OpenResolved(c) ==
    /\ ~serviceDisposed
    /\ calls[c].pc = "awaiting"
    /\ LET s0 == [Begin(Cur, "openFloatingPanelResumed") EXCEPT
                      !.lastOp.viewId = calls[c].viewId,
                      !.windows = Append(@, "live")]
       IN  Commit(openFloatingPanelResumed(s0, c, Len(s0.windows)))

\* The window provider fails the open request of call c.
OpenRejected(c) ==
    /\ ~serviceDisposed
    /\ calls[c].pc = "awaiting"
    /\ Commit(openFloatingPanelRejected(
           [Begin(Cur, "openFloatingPanelRejected") EXCEPT
                !.lastOp.viewId = calls[c].viewId], c))

\* A caller calls closeFloatingPanel(panelId).
CloseFloatingPanel(panelId, sync) ==
    /\ ~serviceDisposed
    /\ Commit(closeFloatingPanel(
           [Begin(Cur, "closeFloatingPanel") EXCEPT
                !.lastOp.panelId = panelId,
                !.lastOp.panel = MapGet(floatingPanels, panelId)],
           panelId, sync))

\* A caller calls dockFloatingPanel(panelId, location).
DockFloatingPanel(panelId, location, sync, raises) ==
    /\ ~serviceDisposed
    /\ Commit(dockFloatingPanel(
           [Begin(Cur, "dockFloatingPanel") EXCEPT
                !.lastOp.panelId = panelId, !.lastOp.location = location,
                !.lastOp.panel = MapGet(floatingPanels, panelId)],
           panelId, location, sync, raises))

\* The holder of a panel calls panel.close().
PanelClose(p, sync) ==
    /\ ~serviceDisposed
    /\ Commit(close([Begin(Cur, "close") EXCEPT !.lastOp.panel = p], p, sync))

\* The holder of a panel calls panel.bringToFront().
PanelBringToFront(p) ==
    /\ ~serviceDisposed
    /\ Commit(bringToFront([Begin(Cur, "bringToFront") EXCEPT !.lastOp.panel = p], p))

\* The user closes the window w: the window unloads.
ExternalUnload(w) ==
    /\ ~serviceDisposed
    /\ windows[w] = "live"
    /\ Commit(onUnload([Begin(Cur, "externalUnload") EXCEPT
                            !.lastOp.window = w, !.windows[w] = "closed"], w))

\* The unload notification of a destroyed window arrives.
UnloadDelivered(w) ==
    /\ ~serviceDisposed
    /\ windows[w] = "closing"
    /\ Commit(onUnload([Begin(Cur, "unloadDelivered") EXCEPT
                            !.lastOp.window = w, !.windows[w] = "closed"], w))

\* The Float View command.
FloatView(c, viewId, focusedView) ==
    /\ ~serviceDisposed
    /\ FreeSlot(c)
    /\ isViewFloating(Cur, viewId) \/ HasCapacity
    /\ Commit(FloatViewAction_run(
           [Begin(Cur, "floatView") EXCEPT
                !.lastOp.viewId = viewId, !.lastOp.focusedView = focusedView],
           c, viewId, focusedView))

\* The three dock commands; focusedView is the view that has focus when the
\* command runs (the commands do not ask for it).
DockViewToSidebar(viewId, focusedView, sync, raises) ==
    /\ ~serviceDisposed
    /\ Commit(DockViewToSidebarAction_run(
           [Begin(Cur, "dockViewToSidebar") EXCEPT
                !.lastOp.viewId = viewId, !.lastOp.focusedView = focusedView,
                !.lastOp.location = "Sidebar",
                !.lastOp.panel = MapGet(floatingPanelsByViewId, viewId)],
           viewId, sync, raises))

DockViewToPanel(viewId, focusedView, sync, raises) ==
    /\ ~serviceDisposed
    /\ Commit(DockViewToPanelAction_run(
           [Begin(Cur, "dockViewToPanel") EXCEPT
                !.lastOp.viewId = viewId, !.lastOp.focusedView = focusedView,
                !.lastOp.location = "Panel",
                !.lastOp.panel = MapGet(floatingPanelsByViewId, viewId)],
           viewId, sync, raises))

DockViewToAuxiliaryBar(viewId, focusedView, sync, raises) ==
    /\ ~serviceDisposed
    /\ Commit(DockViewToAuxiliaryBarAction_run(
           [Begin(Cur, "dockViewToAuxiliaryBar") EXCEPT
                !.lastOp.viewId = viewId, !.lastOp.focusedView = focusedView,
                !.lastOp.location = "AuxiliaryBar",
                !.lastOp.panel = MapGet(floatingPanelsByViewId, viewId)],
           viewId, sync, raises))

\* Application shutdown: the service is disposed; nothing runs afterwards.
Teardown ==
    /\ ~serviceDisposed
    /\ Commit(FloatingPanelService_dispose(Begin(Cur, "dispose")))

Next ==
    \/ \E c \in Callers, v \in ViewIds, b \in BoundsInputs : OpenFloatingPanel(c, v, b)
    \/ \E c \in Callers : OpenResolved(c)
    \/ \E c \in Callers : OpenRejected(c)
    \/ \E id \in PanelIds :
           \E sync \in SyncModes(MapGet(floatingPanels, id)) :
               CloseFloatingPanel(id, sync)
    \/ \E id \in PanelIds, loc \in Locations :
           \E sync \in SyncModes(MapGet(floatingPanels, id)),
              raises \in RaiseModes(ViewOf(MapGet(floatingPanels, id))) :
               DockFloatingPanel(id, loc, sync, raises)
    \/ \E p \in PanelRefs : \E sync \in SyncModes(p) : PanelClose(p, sync)
    \/ \E p \in PanelRefs : PanelBringToFront(p)
    \/ \E w \in WindowRefs : ExternalUnload(w)
    \/ \E w \in WindowRefs : UnloadDelivered(w)
    \/ Teardown

Spec == Init /\ [][Next]_vars

\* The service with a window provider that answers every open request: a
\* request that stays pending is eventually resolved or rejected.
ProviderAnswers == \A c \in Callers : WF_vars(OpenResolved(c) \/ OpenRejected(c))

SpecLive == Init /\ [][Next]_vars /\ ProviderAnswers

\* The placement commands over the service, with the same environment;
\* other code floats views through the service directly.
NextCommands ==
    \/ \E c \in Callers, v \in ViewIds, b \in BoundsInputs : OpenFloatingPanel(c, v, b)
    \/ \E c \in Callers, v \in ViewIds \cup {NoView} :
           \E f \in FocusInputs(v) : FloatView(c, v, f)
    \/ \E v \in ViewIds \cup {NoView} :
           \E f \in FocusInputs(v),
              sync \in SyncModes(MapGet(floatingPanelsByViewId, v)),
              raises \in RaiseModes(v) :
               DockViewToSidebar(v, f, sync, raises)
    \/ \E v \in ViewIds \cup {NoView} :
           \E f \in FocusInputs(v),
              sync \in SyncModes(MapGet(floatingPanelsByViewId, v)),
              raises \in RaiseModes(v) :
               DockViewToPanel(v, f, sync, raises)
    \/ \E v \in ViewIds \cup {NoView} :
           \E f \in FocusInputs(v),
              sync \in SyncModes(MapGet(floatingPanelsByViewId, v)),
              raises \in RaiseModes(v) :
               DockViewToAuxiliaryBar(v, f, sync, raises)
    \/ \E c \in Callers : OpenResolved(c)
    \/ \E c \in Callers : OpenRejected(c)
    \/ \E w \in WindowRefs : ExternalUnload(w)
    \/ \E w \in WindowRefs : UnloadDelivered(w)

SpecCommands == Init /\ [][NextCommands]_vars

---------------------------------------------------------------------------
\* Vocabulary of the properties.

RegisteredPanels == MapValues(floatingPanels)
PanelsOfView(v) == {p \in RegisteredPanels : panels[p].viewId = v}
PanelOfWindow(w) == CHOOSE p \in PanelRefs : panels[p].window = w
WindowOf(p) == windows[panels[p].window]
PanelAbsent(p) ==
    /\ MapGet(floatingPanels, panels[p].id) # p
    /\ p \notin MapValues(floatingPanelsByViewId)
PanelAbsentNext(p) ==
    /\ MapGet(floatingPanels', panels'[p].id) # p
    /\ p \notin MapValues(floatingPanelsByViewId')
WindowOfNext(p) == windows'[panels'[p].window]
EventsOf(p) == IF p <= Len(events) THEN events[p] ELSE <<>>
Count(p, type) == Cardinality({i \in 1..Len(EventsOf(p)) : EventsOf(p)[i].type = type})
CloseCount(p) == Count(p, "close")
OpenCount(p) == Count(p, "open")
Relocatable(viewId) ==
    /\ getViewDescriptorById(viewId) # Undefined
    /\ Descriptor(getViewDescriptorById(viewId)).canMoveView

---------------------------------------------------------------------------
\* C1. Uniqueness: in every reachable state at most one registered panel
\* (an entry of floatingPanels) has any given view id.
C1_Uniqueness == \A v \in ViewIds : Cardinality(PanelsOfView(v)) <= 1

\* C2. No two overlapping openFloatingPanel calls for the same view id are
\* both past the existence check, waiting for a window of their own.
C2_SingleCreate ==
    \A c1, c2 \in Callers :
        (c1 # c2 /\ calls[c1].pc = "awaiting" /\ calls[c2].pc = "awaiting")
            => calls[c1].viewId # calls[c2].viewId

\* C3. Index soundness: every entry v -> p of floatingPanelsByViewId has
\* p.viewId = v, and floatingPanels holds that same panel p under p.id.
C3_IndexSound ==
    \A v \in DOMAIN floatingPanelsByViewId :
        LET p == floatingPanelsByViewId[v]
        IN  /\ p \in PanelRefs
            /\ panels[p].viewId = v
            /\ MapGet(floatingPanels, panels[p].id) = p

\* C3 witness: a view has an entry again after an earlier panel of the same
\* view was closed and removed.
C3_Witness ==
    \E v \in DOMAIN floatingPanelsByViewId :
        \E q \in PanelRefs :
            /\ panels[q].viewId = v
            /\ q # floatingPanelsByViewId[v]
            /\ CloseCount(q) = 1

\* C4. Index completeness: every panel p held in floatingPanels is the entry
\* of floatingPanelsByViewId for p.viewId, and the two maps have equally
\* many entries.
C4_IndexComplete ==
    /\ \A p \in RegisteredPanels :
           MapGet(floatingPanelsByViewId, panels[p].viewId) = p
    /\ Cardinality(DOMAIN floatingPanels) = Cardinality(DOMAIN floatingPanelsByViewId)

\* C5. Idempotent re-float: openFloatingPanel(v) while v is floating returns
\* the existing panel, focuses its window, requests no window, leaves both
\* maps as they were and delivers no event.
C5_IdempotentRefloat ==
    [][(lastOp'.op = "openFloatingPanel" /\ isViewFloating(Cur, lastOp'.viewId))
        => /\ lastOp'.ret = floatingPanelsByViewId[lastOp'.viewId]
           /\ lastOp'.focused = <<panels[lastOp'.ret].window>>
           /\ lastOp'.opened = <<>>
           /\ ~lastOp'.threw
           /\ floatingPanels' = floatingPanels
           /\ floatingPanelsByViewId' = floatingPanelsByViewId
           /\ events' = events
           /\ UNCHANGED <<idCounter, panels, windows, calls>>]_vars

\* C5 witness: an openFloatingPanel call has returned an existing panel.
C5_Witness ==
    /\ lastOp.op = "openFloatingPanel"
    /\ lastOp.ret # NoPanel
    /\ lastOp.focused # <<>>

\* C6. onDidCloseFloatingPanel is delivered exactly once per closed panel:
\* never twice, and once the window of a panel has unloaded, once.
C6_CloseOnce ==
    \A p \in PanelRefs :
        /\ CloseCount(p) <= 1
        /\ WindowOf(p) = "closed" => CloseCount(p) = 1

\* C7. Explicit close removes the panel: after closeFloatingPanel(id) of a
\* registered panel the window is destroyed, and once the window has
\* delivered unload (inside the call, or in the step that follows it) the
\* panel is in neither map.
C7_ExplicitCloseRemoves ==
    [][/\ (lastOp'.op = "closeFloatingPanel" /\ lastOp'.panel # NoPanel)
            => /\ WindowOfNext(lastOp'.panel) # "live"
               /\ WindowOfNext(lastOp'.panel) = "closed" => PanelAbsentNext(lastOp'.panel)
       /\ (/\ lastOp.op = "closeFloatingPanel" /\ lastOp.panel # NoPanel
           /\ lastOp'.op = "unloadDelivered"
           /\ lastOp'.window = panels[lastOp.panel].window)
            => PanelAbsentNext(lastOp.panel)]_vars

\* C8. External close: when a live window unloads without close() having
\* been called, its panel is removed from both maps and
\* onDidCloseFloatingPanel has been delivered for it exactly once.
C8_ExternalClose ==
    lastOp.op = "externalUnload"
        => LET p == PanelOfWindow(lastOp.window)
           IN  /\ PanelAbsent(p)
               /\ CloseCount(p) = 1

\* C8 witness: the window of a registered panel was closed by the user.
C8_Witness ==
    /\ lastOp.op = "externalUnload"
    /\ CloseCount(PanelOfWindow(lastOp.window)) = 1
    /\ OpenCount(PanelOfWindow(lastOp.window)) = 1

\* C9. Dock always terminates the floating state: after dockFloatingPanel of
\* a registered panel returns, the panel's view is not floating and
\* getFloatingPanel(id) is absent.
C9_DockTerminates ==
    (lastOp.op = "dockFloatingPanel" /\ lastOp.panel # NoPanel /\ ~lastOp.threw)
        => /\ ~isViewFloating(Cur, panels[lastOp.panel].viewId)
           /\ getFloatingPanel(Cur, lastOp.panelId) = NoPanel

\* C10. dockFloatingPanel of a registered panel calls the registry's
\* relocate once, with (descriptor of the panel's view, location, "dock"),
\* when that descriptor exists and is relocatable, and otherwise not at all.
C10_DockRelocates ==
    (lastOp.op = "dockFloatingPanel" /\ lastOp.panel # NoPanel)
        => LET v == panels[lastOp.panel].viewId
           IN  IF Relocatable(v)
               THEN /\ Len(lastOp.relocate) = 1
                    /\ lastOp.relocate[1].descriptor = Descriptor(getViewDescriptorById(v))
                    /\ lastOp.relocate[1].location = lastOp.location
                    /\ lastOp.relocate[1].reason = "dock"
               ELSE lastOp.relocate = <<>>

\* C10 witness: a registered panel of a relocatable view was docked.
C10_Witness ==
    /\ lastOp.op = "dockFloatingPanel"
    /\ lastOp.panel # NoPanel
    /\ Len(lastOp.relocate) = 1
    /\ lastOp.location = "Panel"

\* C11. Window-creation failure: when the open request of an
\* openFloatingPanel call fails, the call fails with it, returns no panel,
\* and neither map, the panels, the id counter nor the events change.
C11_OpenFailure ==
    [][lastOp'.op = "openFloatingPanelRejected"
        => /\ lastOp'.threw
           /\ lastOp'.ret = NoPanel
           /\ floatingPanels' = floatingPanels
           /\ floatingPanelsByViewId' = floatingPanelsByViewId
           /\ UNCHANGED <<idCounter, panels, windows, events>>]_vars

\* C11 witness: an open request failed while another view was floating.
C11_Witness ==
    /\ lastOp.op = "openFloatingPanelRejected"
    /\ lastOp.threw
    /\ RegisteredPanels # {}

\* C12. closeFloatingPanel(id) and dockFloatingPanel(id, loc) with an id
\* that is not in floatingPanels change nothing: maps, panels, windows and
\* events stay as they are, the registry is neither consulted nor asked to
\* relocate, no window is focused and nothing is raised.
C12_UnknownIdNoOp ==
    [][(/\ lastOp'.op \in {"closeFloatingPanel", "dockFloatingPanel"}
        /\ getFloatingPanel(Cur, lastOp'.panelId) = NoPanel)
        => /\ UNCHANGED <<idCounter, panels, windows, floatingPanels,
                          floatingPanelsByViewId, events, calls>>
           /\ lastOp'.consulted = <<>>
           /\ lastOp'.relocate = <<>>
           /\ lastOp'.focused = <<>>
           /\ ~lastOp'.threw]_vars

\* C12 witness: dockFloatingPanel was called with the id of a panel that
\* had been closed and removed.
C12_Witness ==
    /\ lastOp.op = "dockFloatingPanel"
    /\ lastOp.panel = NoPanel
    /\ \E p \in PanelRefs : panels[p].id = lastOp.panelId /\ CloseCount(p) = 1

\* C13. Id never reused: every panel ever constructed has an id different
\* from the id of every other panel constructed, closed or not.
C13_IdNeverReused ==
    \A p, q \in PanelRefs : p # q => panels[p].id # panels[q].id

\* C13 witness: a panel was created after an earlier panel had been closed
\* and removed.
C13_Witness ==
    /\ lastOp.op = "openFloatingPanelResumed"
    /\ lastOp.ret = 2
    /\ CloseCount(1) = 1
    /\ PanelAbsent(1)

\* C14. onDidOpenFloatingPanel is delivered exactly once per panel created
\* and for nothing else: every constructed panel has one open event and no
\* events exist beyond the constructed panels, so the number of open events
\* equals the number of panels ever created.
C14_OpenOncePerCreation ==
    /\ Len(events) <= Len(panels)
    /\ Len(panels) = idCounter
    /\ \A p \in PanelRefs : OpenCount(p) = 1

\* C14 witness: with two panels created, an openFloatingPanel call returned
\* an existing panel, which still has its one open event.
C14_Witness ==
    /\ lastOp.op = "openFloatingPanel"
    /\ lastOp.ret # NoPanel
    /\ Len(panels) = 2
    /\ OpenCount(lastOp.ret) = 1

\* C15. Open state matches window liveness: a panel is held in
\* floatingPanels exactly when its window is live, and the panel of a live
\* window is the floatingPanelsByViewId entry of its view.
C15_OpenIffLive ==
    \A p \in PanelRefs :
        /\ (p \in RegisteredPanels) <=> (WindowOf(p) = "live")
        /\ WindowOf(p) = "live"
              => MapGet(floatingPanelsByViewId, panels[p].viewId) = p

\* C16. Isolation: a failed open, a closeFloatingPanel, a dockFloatingPanel
\* or an external unload leaves every panel other than the one concerned
\* as it was: still in floatingPanels, still the entry of its view, its
\* window and its events unchanged.
C16_Isolation ==
    [][lastOp'.op \in {"openFloatingPanelRejected", "closeFloatingPanel",
                       "dockFloatingPanel", "externalUnload"}
        => LET concerned ==
                   IF lastOp'.op = "externalUnload"
                   THEN PanelOfWindow(lastOp'.window)
                   ELSE lastOp'.panel
           IN  \A q \in PanelRefs \ {concerned} :
                   /\ MapGet(floatingPanels, panels[q].id) = q
                         => MapGet(floatingPanels', panels[q].id) = q
                   /\ MapGet(floatingPanelsByViewId, panels[q].viewId) = q
                         => MapGet(floatingPanelsByViewId', panels[q].viewId) = q
                   /\ windows'[panels[q].window] = windows[panels[q].window]
                   /\ EventsOf(q)' = EventsOf(q)]_vars

\* C17. Fresh float: an openFloatingPanel call that creates a panel returns
\* a new panel with an id no earlier panel had and the requested view id;
\* afterwards the view is floating, both lookups return that panel and
\* getAllFloatingPanels() is one longer.
C17_FreshFloat ==
    [][lastOp'.op = "openFloatingPanelResumed"
        => LET p == lastOp'.ret
               v == lastOp'.viewId
           IN  /\ p \in (1..Len(panels')) \ PanelRefs
               /\ panels'[p].viewId = v
               /\ \A q \in PanelRefs : panels[q].id # panels'[p].id
               /\ isViewFloating(Cur', v)
               /\ getFloatingPanel(Cur', panels'[p].id) = p
               /\ getFloatingPanelByViewId(Cur', v) = p
               /\ Cardinality(DOMAIN floatingPanels') =
                      Cardinality(DOMAIN floatingPanels) + 1
               /\ getAllFloatingPanels(Cur') = getAllFloatingPanels(Cur) \cup {p}]_vars

\* C17 witness: a view that floated before, and was closed, floats again
\* in a new panel.
C17_Witness ==
    /\ lastOp.op = "openFloatingPanelResumed"
    /\ lastOp.ret = 2
    /\ panels[1].viewId = panels[2].viewId
    /\ RegisteredPanels = {2}

\* C18. Float command on a floating view: given a view id whose view is
\* floating, the command focuses the window of the existing panel and
\* stops: no window is requested and no panel is created, whether or not
\* the registry has a descriptor for the view.
C18_FloatExistingToFront ==
    [][(/\ lastOp'.op = "floatView"
        /\ lastOp'.viewId # NoView
        /\ isViewFloating(Cur, lastOp'.viewId))
        => /\ lastOp'.focused =
                  <<panels[floatingPanelsByViewId[lastOp'.viewId]].window>>
           /\ lastOp'.opened = <<>>
           /\ UNCHANGED <<idCounter, panels, windows, floatingPanels,
                          floatingPanelsByViewId, events, calls>>]_vars

\* C19. Float command on an unknown view: when the view is not floating
\* and the registry has no descriptor for it, the command does nothing: no
\* window request, no panel, no event, no focus, nothing raised.
C19_FloatUnknownNoOp ==
    [][(/\ lastOp'.op = "floatView"
        /\ lastOp'.viewId # NoView
        /\ ~isViewFloating(Cur, lastOp'.viewId)
        /\ getViewDescriptorById(lastOp'.viewId) = Undefined)
        => /\ UNCHANGED <<idCounter, panels, windows, floatingPanels,
                          floatingPanelsByViewId, events, calls>>
           /\ lastOp'.opened = <<>>
           /\ lastOp'.focused = <<>>
           /\ lastOp'.relocate = <<>>
           /\ lastOp'.ret = NoPanel
           /\ ~lastOp'.threw]_vars

\* C19 witness: the Float command was given the unknown view while another
\* view was floating.
C19_Witness ==
    /\ lastOp.op = "floatView"
    /\ lastOp.viewId = "ghost"
    /\ lastOp.consulted = <<"ghost">>
    /\ ~isViewFloating(Cur, "ghost")
    /\ RegisteredPanels # {}

\* The location each dock command names.
DockCommandLocation(op) ==
    CASE op = "dockViewToSidebar" -> "Sidebar"
      [] op = "dockViewToPanel" -> "Panel"
      [] op = "dockViewToAuxiliaryBar" -> "AuxiliaryBar"

\* C20. Dock commands on a floating view: the command does exactly what
\* dockFloatingPanel(id of the view's panel, the command's own location)
\* does, and every relocate call made names the command's own location
\* (there is at most one).
C20_DockCommandsDock ==
    [][(/\ lastOp'.op \in {"dockViewToSidebar", "dockViewToPanel",
                           "dockViewToAuxiliaryBar"}
        /\ lastOp'.viewId # NoView
        /\ getFloatingPanelByViewId(Cur, lastOp'.viewId) # NoPanel)
        => LET p == floatingPanelsByViewId[lastOp'.viewId]
               loc == DockCommandLocation(lastOp'.op)
               pre == [Begin(Cur, lastOp'.op) EXCEPT
                          !.lastOp.viewId = lastOp'.viewId,
                          !.lastOp.location = loc,
                          !.lastOp.panel = p]
           IN  /\ \E sync \in BOOLEAN, raises \in BOOLEAN :
                      Cur' = dockFloatingPanel(pre, panels[p].id, loc, sync, raises)
               /\ Len(lastOp'.relocate) <= 1
               /\ \A i \in 1..Len(lastOp'.relocate) :
                      lastOp'.relocate[i].location = loc]_vars

\* C20 witness: Dock-to-Panel was run on a floating, relocatable view.
C20_Witness ==
    /\ lastOp.op = "dockViewToPanel"
    /\ lastOp.panel # NoPanel
    /\ Len(lastOp.relocate) = 1
    /\ lastOp.relocate[1].location = "Panel"
    /\ ~lastOp.threw

DockCommands == {"dockViewToSidebar", "dockViewToPanel", "dockViewToAuxiliaryBar"}

\* C21. Dock commands on a view that is not floating: the registry is asked
\* to relocate the view, once, to the command's location with reason
\* "dock", exactly when the view's descriptor exists and is relocatable;
\* either way both maps, the panels, the windows and the events stay as
\* they are and no window is requested.
C21_DockNotFloating ==
    [][(/\ lastOp'.op \in DockCommands
        /\ lastOp'.viewId # NoView
        /\ ~isViewFloating(Cur, lastOp'.viewId))
        => LET v == lastOp'.viewId
           IN  /\ IF Relocatable(v)
                  THEN /\ Len(lastOp'.relocate) = 1
                       /\ lastOp'.relocate[1].descriptor =
                              Descriptor(getViewDescriptorById(v))
                       /\ lastOp'.relocate[1].location = DockCommandLocation(lastOp'.op)
                       /\ lastOp'.relocate[1].reason = "dock"
                  ELSE lastOp'.relocate = <<>> /\ ~lastOp'.threw
               /\ lastOp'.opened = <<>>
               /\ lastOp'.focused = <<>>
               /\ UNCHANGED <<idCounter, panels, windows, floatingPanels,
                              floatingPanelsByViewId, events, calls>>]_vars

\* C21 witness: Dock-to-Sidebar was run on the view that is not relocatable,
\* not floating, while another view was floating.
C21_Witness ==
    /\ lastOp.op = "dockViewToSidebar"
    /\ lastOp.viewId = "search"
    /\ lastOp.panel = NoPanel
    /\ lastOp.consulted = <<"search">>
    /\ lastOp.relocate = <<>>
    /\ RegisteredPanels # {}

\* What a command did, as its caller and the other components see it.
Effect(s) ==
    [idCounter |-> s.idCounter, panels |-> s.panels, windows |-> s.windows,
     floatingPanels |-> s.floatingPanels,
     floatingPanelsByViewId |-> s.floatingPanelsByViewId,
     events |-> s.events, calls |-> s.calls,
     opened |-> s.lastOp.opened, relocate |-> s.lastOp.relocate,
     focused |-> s.lastOp.focused, threw |-> s.lastOp.threw]

\* The command named op, run with an explicit view id.
CommandRun(op, s, c, viewId, sync, raises) ==
    CASE op = "floatView" -> FloatViewAction_run(s, c, viewId, NoView)
      [] op = "dockViewToSidebar" -> DockViewToSidebarAction_run(s, viewId, sync, raises)
      [] op = "dockViewToPanel" -> DockViewToPanelAction_run(s, viewId, sync, raises)
      [] op = "dockViewToAuxiliaryBar" ->
             DockViewToAuxiliaryBarAction_run(s, viewId, sync, raises)

\* C22. Target resolution: a command run without a view id while a view
\* has focus has the effect the same command has when it is given the id
\* of that view.
C22_TargetResolution ==
    [][(/\ lastOp'.op \in DockCommands \cup {"floatView"}
        /\ lastOp'.viewId = NoView
        /\ lastOp'.focusedView # NoView)
        => \E c \in Callers, sync \in BOOLEAN, raises \in BOOLEAN :
               /\ lastOp'.op = "floatView" => FreeSlot(c)
               /\ Effect(Cur') =
                      Effect(CommandRun(lastOp'.op, Begin(Cur, lastOp'.op), c,
                                        lastOp'.focusedView, sync, raises))]_vars

\* C23. Teardown: once the service has been disposed, every window it
\* opened is destroyed and both maps are empty.
C23_TeardownClosesAll ==
    serviceDisposed
        => /\ \A w \in WindowRefs : windows[w] # "live"
           /\ DOMAIN floatingPanels = {}
           /\ DOMAIN floatingPanelsByViewId = {}

\* The call of slot c has completed: it returned a panel that is in both
\* maps, or it failed with the provider's failure.
Completed(c) ==
    /\ calls[c].pc = "idle"
    /\ \/ /\ lastOp.op = "openFloatingPanelResumed"
          /\ lastOp.ret \in PanelRefs
          /\ getFloatingPanel(Cur, panels[lastOp.ret].id) = lastOp.ret
          /\ getFloatingPanelByViewId(Cur, panels[lastOp.ret].viewId) = lastOp.ret
       \/ /\ lastOp.op = "openFloatingPanelRejected"
          /\ lastOp.threw

\* C24. No operation blocks: with a provider that answers every request,
\* a suspended openFloatingPanel call completes (unless the application
\* shuts down first), returning a registered panel or failing with the
\* provider's failure; and closeFloatingPanel, dockFloatingPanel, close and
\* bringToFront never leave a call suspended that was not suspended before.
C24_NoBlocking ==
    /\ \A c \in Callers :
           (calls[c].pc = "awaiting") ~> (Completed(c) \/ serviceDisposed)
    /\ [][lastOp'.op \in {"closeFloatingPanel", "dockFloatingPanel", "close",
                          "bringToFront"}
            => calls' = calls]_vars

\* C24 witness: two overlapping calls have both completed, the second by
\* the provider's failure.
C24_Witness ==
    /\ lastOp.op = "openFloatingPanelRejected"
    /\ lastOp.threw
    /\ Awaiting = {}
    /\ Len(panels) = 1
    /\ RegisteredPanels = {1}

\* C25. Closed is terminal: the id of a panel that is no longer in
\* floatingPanels is never in floatingPanels again, and a panel whose id is
\* not in floatingPanels is not the floatingPanelsByViewId entry of any view.
C25_ClosedIsTerminal ==
    [][\A p \in PanelRefs :
           /\ panels[p].id \notin DOMAIN floatingPanels
                 => panels[p].id \notin DOMAIN floatingPanels'
           /\ panels[p].id \notin DOMAIN floatingPanels'
                 => p \notin MapValues(floatingPanelsByViewId')]_vars

\* C25 witness: after a panel was closed and removed, its view was floated
\* again and a further openFloatingPanel for the view returned the new panel.
C25_Witness ==
    /\ lastOp.op = "openFloatingPanel"
    /\ lastOp.ret = 2
    /\ panels[1].viewId = panels[2].viewId
    /\ CloseCount(1) = 1
    /\ PanelAbsent(1)

\* C26. Both close paths tear down the unload subscription: a panel that
\* has been removed from floatingPanels no longer listens to its window's
\* unload notification.
C26_SubscriptionTornDown ==
    \A p \in PanelRefs :
        panels[p].id \notin DOMAIN floatingPanels => ~panels[p].listening

\* C27. bringToFront is not a state transition: on a panel, open or closed,
\* it asks the panel's window for focus and nothing else; maps, panels,
\* windows, events and pending calls stay as they are, no window is
\* requested and nothing is raised.
C27_BringToFrontFrame ==
    [][lastOp'.op = "bringToFront"
        => /\ UNCHANGED <<idCounter, panels, windows, floatingPanels,
                          floatingPanelsByViewId, events, calls>>
           /\ lastOp'.focused = <<panels[lastOp'.panel].window>>
           /\ lastOp'.opened = <<>>
           /\ lastOp'.relocate = <<>>
           /\ ~lastOp'.threw]_vars

\* C27 witness: bringToFront was called on a panel that had been closed
\* and removed.
C27_Witness ==
    /\ lastOp.op = "bringToFront"
    /\ WindowOf(lastOp.panel) = "closed"
    /\ PanelAbsent(lastOp.panel)
    /\ CloseCount(lastOp.panel) = 1

\* C28. Window options pass-through: an openFloatingPanel call that takes
\* the create path requests one window, with the bounds option of the
\* caller when one is given and with 400 by 300 when none is, and with no
\* other option (view id and title are not forwarded); the Float command
\* floating a view requests one window with bounds 500 by 400.
C28_OptionsPassThrough ==
    [][/\ \A c \in Callers, v \in ViewIds, b \in BoundsInputs :
              (OpenFloatingPanel(c, v, b) /\ ~isViewFloating(Cur, v))
                  => lastOp'.opened =
                         <<[bounds |-> IF b = Undefined
                                       THEN {[width |-> 400, height |-> 300]}
                                       ELSE b]>>
       /\ (/\ lastOp'.op = "floatView"
           /\ lastOp'.viewId # NoView
           /\ getViewDescriptorById(lastOp'.viewId) # Undefined
           /\ ~isViewFloating(Cur, lastOp'.viewId))
              => lastOp'.opened = <<[bounds |-> {[width |-> 500, height |-> 400]}]>>]_vars

\* C28 witness: the Float command requested a window for a view while
\* another call was waiting for its window.
C28_Witness ==
    /\ lastOp.op = "floatView"
    /\ Len(lastOp.opened) = 1
    /\ Cardinality(Awaiting) = 2

\* C29. Event ordering against map state: every delivery of
\* onDidOpenFloatingPanel(p) found p in floatingPanels and in
\* floatingPanelsByViewId, and every delivery of onDidCloseFloatingPanel(p)
\* found p in neither.
C29_EventsSeeMaps ==
    \A p \in 1..Len(events) :
        \A i \in 1..Len(events[p]) :
            /\ events[p][i].type = "open"
                  => events[p][i].inById /\ events[p][i].inByViewId
            /\ events[p][i].type = "close"
                  => ~events[p][i].inById /\ ~events[p][i].inByViewId

\* C29 witness: a panel was opened and then docked, with both events
\* delivered.
C29_Witness ==
    /\ lastOp.op = "dockFloatingPanel"
    /\ lastOp.panel # NoPanel
    /\ OpenCount(lastOp.panel) = 1
    /\ CloseCount(lastOp.panel) = 1

\* C30. Closing one panel never hides another: when a step removes the
\* floatingPanelsByViewId entry of a view, no panel of that view is left in
\* floatingPanels with a live window.
C30_NoHiding ==
    [][\A v \in DOMAIN floatingPanelsByViewId :
           v \notin DOMAIN floatingPanelsByViewId'
               => ~\E q \in MapValues(floatingPanels') :
                       /\ panels'[q].viewId = v
                       /\ windows'[panels'[q].window] = "live"]_vars

\* C31. Unload after explicit close is ignored: close(), closeFloatingPanel
\* and dockFloatingPanel of a panel deliver a close event exactly when the
\* panel's window was live and unloaded inside the call; and the unload
\* notification of a destroyed window that arrives later changes neither
\* map and delivers no event.
C31_LateUnloadIgnored ==
    [][/\ (/\ lastOp'.op \in {"close", "closeFloatingPanel", "dockFloatingPanel"}
           /\ lastOp'.panel # NoPanel)
              => LET p == lastOp'.panel
                 IN  /\ (events' # events)
                            <=> (WindowOf(p) = "live" /\ WindowOfNext(p) = "closed")
                     /\ WindowOfNext(p) = "closing"
                            => /\ floatingPanels' = floatingPanels
                               /\ floatingPanelsByViewId' = floatingPanelsByViewId
       /\ lastOp'.op = "unloadDelivered"
              => /\ floatingPanels' = floatingPanels
                 /\ floatingPanelsByViewId' = floatingPanelsByViewId
                 /\ events' = events
                 /\ panels' = panels]_vars

\* C31 witness: the unload of a window destroyed by an explicit close has
\* arrived, and the panel is still in both maps with no close event.
C31_Witness ==
    /\ lastOp.op = "unloadDelivered"
    /\ windows[lastOp.window] = "closed"
    /\ PanelOfWindow(lastOp.window) \in RegisteredPanels
    /\ PanelOfWindow(lastOp.window) \in MapValues(floatingPanelsByViewId)
    /\ CloseCount(PanelOfWindow(lastOp.window)) = 0

\* C32. Dock ordering: when dockFloatingPanel asks the registry to relocate,
\* the call is made while the panel's view is still reported as floating:
\* before the window is destroyed and before the panel leaves the maps.
C32_DockOrdering ==
    (lastOp.op = "dockFloatingPanel" /\ lastOp.panel # NoPanel)
        => \A i \in 1..Len(lastOp.relocate) : lastOp.relocate[i].floating

\* C33. Relocation failure in dock: when the registry's relocate raises
\* during dockFloatingPanel, the failure leaves the call and the panel is
\* not closed: its window, both maps, the panels and the events are as
\* they were.
C33_DockRelocateFails ==
    [][(lastOp'.op = "dockFloatingPanel" /\ lastOp'.threw)
        => /\ Len(lastOp'.relocate) = 1
           /\ UNCHANGED <<idCounter, panels, windows, floatingPanels,
                          floatingPanelsByViewId, events, calls>>]_vars

\* C33 witness: relocate raised while a panel with a live window was docked.
C33_Witness ==
    /\ lastOp.op = "dockFloatingPanel"
    /\ lastOp.threw
    /\ lastOp.panel \in RegisteredPanels
    /\ WindowOf(lastOp.panel) = "live"
    /\ MapGet(floatingPanelsByViewId, panels[lastOp.panel].viewId) = lastOp.panel
    /\ CloseCount(lastOp.panel) = 0

\* C34. Per-panel event order: every close event of a panel comes after an
\* open event of that panel; no panel has a close event without an open
\* event before it.
C34_OpenBeforeClose ==
    \A p \in 1..Len(events) :
        \A i \in 1..Len(events[p]) :
            events[p][i].type = "close"
                => \E j \in 1..(i - 1) : events[p][j].type = "open"

\* C34 witness: a panel was closed by its holder; its events are open, close.
C34_Witness ==
    /\ lastOp.op = "close"
    /\ Len(EventsOf(lastOp.panel)) = 2
    /\ EventsOf(lastOp.panel)[1].type = "open"
    /\ EventsOf(lastOp.panel)[2].type = "close"

\* The panels of view v that were closed and removed.
ClosedPanelsOfView(v) ==
    {q \in PanelRefs : panels[q].viewId = v /\ PanelAbsent(q) /\ CloseCount(q) = 1}

\* C35. Re-float after close: when a panel of view v was closed and removed
\* and v is not floating, openFloatingPanel(v) takes the create branch (it
\* returns no existing panel and requests one window), and the panel it
\* creates has an id different from every closed panel's id, is announced
\* by an open event of its own and makes v floating again.
C35_RefloatAfterClose ==
    [][/\ (/\ lastOp'.op = "openFloatingPanel"
           /\ ClosedPanelsOfView(lastOp'.viewId) # {}
           /\ ~isViewFloating(Cur, lastOp'.viewId))
              => /\ Len(lastOp'.opened) = 1
                 /\ lastOp'.ret = NoPanel
                 /\ lastOp'.focused = <<>>
                 /\ \E c \in Callers :
                        /\ calls[c].pc = "idle"
                        /\ calls'[c] = [pc |-> "awaiting", viewId |-> lastOp'.viewId]
       /\ (/\ lastOp'.op = "openFloatingPanelResumed"
           /\ ClosedPanelsOfView(lastOp'.viewId) # {})
              => LET p == lastOp'.ret
                 IN  /\ p = Len(panels) + 1
                     /\ \A q \in ClosedPanelsOfView(lastOp'.viewId) :
                            panels'[p].id # panels[q].id
                     /\ Len(events') = p
                     /\ Len(events'[p]) = 1
                     /\ events'[p][1].type = "open"
                     /\ isViewFloating(Cur', lastOp'.viewId)
                     /\ windows'[panels'[p].window] = "live"]_vars

\* C35 witness: a view whose first panel was closed and removed floats
\* again in a second panel with a live window.
C35_Witness ==
    /\ lastOp.op = "openFloatingPanelResumed"
    /\ ClosedPanelsOfView(lastOp.viewId) = {1}
    /\ lastOp.ret = 2
    /\ OpenCount(2) = 1
    /\ WindowOf(2) = "live"
    /\ WindowOf(1) = "closed"

\* C36. Id allocation: the n-th panel constructed has the id
\* floating-panel-(n-1), so ids increase strictly in creation order; the
\* counter grows by one exactly when a panel is constructed, and neither a
\* failed open request nor an openFloatingPanel call that returns the
\* existing panel changes it.
C36_IdAllocation ==
    [][/\ \A p \in 1..Len(panels') : panels'[p].id = PanelId(p - 1)
       /\ \A p, q \in 1..Len(panels') :
              p < q => panels'[p].id[2] < panels'[q].id[2]
       /\ idCounter' - idCounter = Len(panels') - Len(panels)
       /\ lastOp'.op \in {"openFloatingPanel", "openFloatingPanelRejected"}
              => idCounter' = idCounter /\ panels' = panels
       /\ lastOp'.op = "openFloatingPanelResumed"
              => /\ idCounter' = idCounter + 1
                 /\ panels'[Len(panels')].id = PanelId(idCounter)]_vars

\* C36 witness: an open request failed after one panel had been created,
\* and the counter stands at one.
C36_Witness ==
    /\ lastOp.op = "openFloatingPanelRejected"
    /\ lastOp.threw
    /\ Len(panels) = 1
    /\ idCounter = 1

====
